---- MODULE Spec2Model ----
(***************************************************************************)
(* Model of chalk-parse/src/ast.rs: the term representation of the chalk   *)
(* logic language.  The file holds plain data definitions, the derived     *)
(* structural equality (#[derive(PartialEq, Eq)]) of every type, and three *)
(* functions: Span::new, Kinded::kind and PolarizedTraitRef::from_bool.    *)
(*                                                                         *)
(* A struct value is a record of its fields.  An enum value is a record    *)
(* with a "tag" field naming the variant plus the variant's fields (f0,    *)
(* f1 for tuple variants).  A Vec is a sequence, a Box is its content.     *)
(* The derived equality of each type is an operator T_eq that compares     *)
(* the discriminants and then the fields one by one, as the derive does.   *)
(***************************************************************************)
EXTENDS Integers, Sequences, FiniteSets, TLC

\* ------------------------------------------------------------------ bounds

\* Largest byte offset handed to Span::new.
MaxOffset == 1
\* Longest argument list built.
MaxArgs == 1
\* Longest binder list built.
MaxLen == 2
\* Byte length of the tokens the lexer hands over (hi = lo + TokenLen).
TokenLen == 1
\* Most items in a Program.
MaxItems == 3

\* Interned texts of the tokens the builder is fed.
Names == {"T", "a"}
\* The two occurrences that are built side by side and then compared.
Sides == {"L", "R"}
Other(s) == IF s = "L" THEN "R" ELSE "L"

\* n copies of x as a Vec
Repeat(x, n) == [i \in 1..n |-> x]
\* all Vecs of at most n elements of S
SeqsUpTo(S, n) == UNION {[1..k -> S] : k \in 0..n}

\* ------------------------------------------------------------------ Span

\* a constructor that puts the two offsets in order
Span_new_ordered(lo, hi) ==
    [lo |-> IF lo <= hi THEN lo ELSE hi, hi |-> IF lo <= hi THEN hi ELSE lo]

\* Span::new
Span_new(lo, hi) == [lo |-> lo, hi |-> hi]

\* derived PartialEq for Span
Span_eq(a, b) == a.lo = b.lo /\ a.hi = b.hi

\* ------------------------------------------------------------------ Identifier

\* struct literal Identifier { str, span }
Identifier(str, span) == [str |-> str, span |-> span]

\* a buggy equality that looks at the interned text only
Identifier_eq_text_only(a, b) == a.str = b.str

\* derived PartialEq for Identifier: both fields
Identifier_eq(a, b) == a.str = b.str /\ Span_eq(a.span, b.span)

VecIdentifier_eq(a, b) ==
    /\ Len(a) = Len(b)
    /\ \A i \in 1..Len(a) : Identifier_eq(a[i], b[i])

\* ------------------------------------------------------------------ Kind, ParameterKind

Kind == {"Ty", "Lifetime"}

ParameterKind_Ty(id) == [tag |-> "Ty", f0 |-> id]
ParameterKind_Lifetime(id) == [tag |-> "Lifetime", f0 |-> id]

ParameterKind_eq(a, b) == a.tag = b.tag /\ Identifier_eq(a.f0, b.f0)

VecParameterKind_eq(a, b) ==
    /\ Len(a) = Len(b)
    /\ \A i \in 1..Len(a) : ParameterKind_eq(a[i], b[i])

\* impl Kinded for ParameterKind
ParameterKind_kind(pk) ==
    CASE pk.tag = "Ty" -> "Ty"
      [] pk.tag = "Lifetime" -> "Lifetime"

\* ------------------------------------------------------------------ Lifetime

Lifetime_Id(name) == [tag |-> "Id", name |-> name]

Lifetime_eq(a, b) == a.tag = b.tag /\ Identifier_eq(a.name, b.name)

\* ------------------------------------------------------------------ Ty, Parameter, TraitRef, projections

Ty_Id(name) == [tag |-> "Id", name |-> name]
Ty_Apply(name, args) == [tag |-> "Apply", name |-> name, args |-> args]
Ty_Projection(proj) == [tag |-> "Projection", proj |-> proj]
Ty_UnselectedProjection(proj) == [tag |-> "UnselectedProjection", proj |-> proj]
Ty_ForAll(lifetime_names, ty) ==
    [tag |-> "ForAll", lifetime_names |-> lifetime_names, ty |-> ty]

Parameter_Ty(ty) == [tag |-> "Ty", f0 |-> ty]
Parameter_Lifetime(l) == [tag |-> "Lifetime", f0 |-> l]

ProjectionTy(trait_ref, name, args) ==
    [trait_ref |-> trait_ref, name |-> name, args |-> args]
UnselectedProjectionTy(name, args) == [name |-> name, args |-> args]
TraitRef(trait_name, args) == [trait_name |-> trait_name, args |-> args]

RECURSIVE Ty_eq(_, _)
RECURSIVE Parameter_eq(_, _)
RECURSIVE VecParameter_eq(_, _)
RECURSIVE TraitRef_eq(_, _)
RECURSIVE ProjectionTy_eq(_, _)
RECURSIVE UnselectedProjectionTy_eq(_, _)

\* an equality that skips the discriminant and compares what the two
\* projection forms have in common
Ty_eq_no_discriminant(a, b) ==
    IF a.tag \in {"Projection", "UnselectedProjection"}
       /\ b.tag \in {"Projection", "UnselectedProjection"}
    THEN /\ Identifier_eq(a.proj.name, b.proj.name)
         /\ VecParameter_eq(a.proj.args, b.proj.args)
    ELSE a = b

\* derived PartialEq for Ty
Ty_eq(a, b) ==
    /\ a.tag = b.tag
    /\ CASE a.tag = "Id" -> Identifier_eq(a.name, b.name)
         [] a.tag = "Apply" ->
              Identifier_eq(a.name, b.name) /\ VecParameter_eq(a.args, b.args)
         [] a.tag = "Projection" -> ProjectionTy_eq(a.proj, b.proj)
         [] a.tag = "UnselectedProjection" ->
              UnselectedProjectionTy_eq(a.proj, b.proj)
         [] a.tag = "ForAll" ->
              /\ VecIdentifier_eq(a.lifetime_names, b.lifetime_names)
              /\ Ty_eq(a.ty, b.ty)

\* derived PartialEq for Parameter
Parameter_eq(a, b) ==
    /\ a.tag = b.tag
    /\ CASE a.tag = "Ty" -> Ty_eq(a.f0, b.f0)
         [] a.tag = "Lifetime" -> Lifetime_eq(a.f0, b.f0)

VecParameter_eq(a, b) ==
    /\ Len(a) = Len(b)
    /\ \A i \in 1..Len(a) : Parameter_eq(a[i], b[i])

\* derived PartialEq for TraitRef
TraitRef_eq(a, b) ==
    /\ Identifier_eq(a.trait_name, b.trait_name)
    /\ VecParameter_eq(a.args, b.args)

\* derived PartialEq for ProjectionTy
ProjectionTy_eq(a, b) ==
    /\ TraitRef_eq(a.trait_ref, b.trait_ref)
    /\ Identifier_eq(a.name, b.name)
    /\ VecParameter_eq(a.args, b.args)

\* derived PartialEq for UnselectedProjectionTy
UnselectedProjectionTy_eq(a, b) ==
    /\ Identifier_eq(a.name, b.name)
    /\ VecParameter_eq(a.args, b.args)

\* a kind() with the arms swapped
Parameter_kind_swapped(p) ==
    CASE p.tag = "Ty" -> "Lifetime"
      [] p.tag = "Lifetime" -> "Ty"

\* impl Kinded for Parameter
Parameter_kind(p) ==
    CASE p.tag = "Ty" -> "Ty"
      [] p.tag = "Lifetime" -> "Lifetime"

\* ------------------------------------------------------------------ PolarizedTraitRef, Impl

PolarizedTraitRef_Positive(tr) == [tag |-> "Positive", f0 |-> tr]
PolarizedTraitRef_Negative(tr) == [tag |-> "Negative", f0 |-> tr]

\* a from_bool with the branches swapped
from_bool_swapped(polarity, trait_ref) ==
    IF polarity THEN PolarizedTraitRef_Negative(trait_ref)
                ELSE PolarizedTraitRef_Positive(trait_ref)

\* a from_bool that drops the polarity
from_bool_always_positive(polarity, trait_ref) ==
    PolarizedTraitRef_Positive(trait_ref)

\* PolarizedTraitRef::from_bool
from_bool(polarity, trait_ref) ==
    IF polarity THEN PolarizedTraitRef_Positive(trait_ref)
                ELSE PolarizedTraitRef_Negative(trait_ref)

PolarizedTraitRef_eq(a, b) == a.tag = b.tag /\ TraitRef_eq(a.f0, b.f0)

\* struct literal Impl { parameter_kinds, trait_ref, where_clauses, assoc_ty_values }
Impl(parameter_kinds, trait_ref, where_clauses, assoc_ty_values) ==
    [parameter_kinds |-> parameter_kinds, trait_ref |-> trait_ref,
     where_clauses |-> where_clauses, assoc_ty_values |-> assoc_ty_values]

\* ------------------------------------------------------------------ state

VARIABLES
    tok,    \* tok[s]: the interned text of the token side s is built from
    ident,   \* ident[s]: the Identifier built on side s (NoIdent before that)
    val,    \* val[s]: the term built so far on side s, with its Rust type
    collected,  \* collected[s]: the Vec<Item> gathered on side s
    res     \* the result of the last query (==, kind()) on the current terms

vars == <<tok, ident, val, collected, res>>

NoIdent == Identifier("", Span_new(0, 0))
NoVal == [sort |-> "None", v |-> <<>>, nested |-> FALSE, via |-> ""]
NoRes == [op |-> "none", side |-> "", eq |-> FALSE, kind |-> "", arg |-> <<>>]

Slot(sort, v, nested) == [sort |-> sort, v |-> v, nested |-> nested, via |-> ""]

\* a constructor ran on side s: the earlier query result is about other terms
Put(s, slot) ==
    /\ val' = [val EXCEPT ![s] = slot]
    /\ res' = NoRes

InitTokens ==
    /\ tok \in [Sides -> Names]
    /\ ident = [s \in Sides |-> NoIdent]
    /\ val = [s \in Sides |-> NoVal]
    /\ collected = [s \in Sides |-> <<>>]
    /\ res = NoRes

\* ------------------------------------------------------------------ building symbols

\* the parser calls Span::new(lo, hi) with the byte range of the token
SpanOfToken(s, lo) ==
    /\ val[s].sort = "None"
    /\ Put(s, Slot("Span", Span_new(lo, lo + TokenLen), FALSE))
    /\ UNCHANGED <<tok, ident, collected>>

\* any caller may call Span::new(lo, hi) with any two offsets
SpanNew(s, lo, hi) ==
    /\ val[s].sort = "None"
    /\ val' = [val EXCEPT ![s] = Slot("Span", Span_new(lo, hi), FALSE)]
    /\ res' = [NoRes EXCEPT !.op = "span_new", !.side = s, !.arg = <<lo, hi>>]
    /\ UNCHANGED <<tok, ident, collected>>

IdentifierNew(s) ==
    /\ val[s].sort = "Span"
    /\ Put(s, Slot("Identifier", Identifier(tok[s], val[s].v), FALSE))
    /\ ident' = [ident EXCEPT ![s] = Identifier(tok[s], val[s].v)]
    /\ UNCHANGED <<tok, collected>>

ParameterKindNew(s, k) ==
    /\ val[s].sort = "Identifier"
    /\ Put(s, Slot("ParameterKind",
                   IF k = "Ty" THEN ParameterKind_Ty(val[s].v)
                               ELSE ParameterKind_Lifetime(val[s].v), FALSE))
    /\ UNCHANGED <<tok, ident, collected>>

LifetimeNew(s) ==
    /\ val[s].sort = "Identifier"
    /\ Put(s, Slot("Lifetime", Lifetime_Id(val[s].v), FALSE))
    /\ UNCHANGED <<tok, ident, collected>>

TyIdNew(s) ==
    /\ val[s].sort = "Identifier"
    /\ Put(s, Slot("Ty", Ty_Id(val[s].v), FALSE))
    /\ UNCHANGED <<tok, ident, collected>>

ParameterTyNew(s) ==
    /\ val[s].sort = "Ty" /\ ~val[s].nested
    /\ Put(s, Slot("Parameter", Parameter_Ty(val[s].v), FALSE))
    /\ UNCHANGED <<tok, ident, collected>>

ParameterLifetimeNew(s) ==
    /\ val[s].sort = "Lifetime"
    /\ Put(s, Slot("Parameter", Parameter_Lifetime(val[s].v), FALSE))
    /\ UNCHANGED <<tok, ident, collected>>

TyApplyNew(s, n) ==
    /\ val[s].sort = "Parameter"
    /\ Put(s, Slot("Ty", Ty_Apply(ident[s], Repeat(val[s].v, n)), TRUE))
    /\ UNCHANGED <<tok, ident, collected>>

TraitRefNew(s, n) ==
    /\ val[s].sort = "Parameter"
    /\ Put(s, Slot("TraitRef", TraitRef(ident[s], Repeat(val[s].v, n)), FALSE))
    /\ UNCHANGED <<tok, ident, collected>>

\* <TraitRef>::name<args>, the projection's own args those of the trait reference
ProjectionTyNew(s) ==
    /\ val[s].sort = "TraitRef"
    /\ Put(s, Slot("ProjectionTy",
                   ProjectionTy(val[s].v, ident[s], val[s].v.args), FALSE))
    /\ UNCHANGED <<tok, ident, collected>>

UnselectedProjectionTyNew(s, n) ==
    /\ val[s].sort = "Parameter"
    /\ Put(s, Slot("UnselectedProjectionTy",
                   UnselectedProjectionTy(ident[s], Repeat(val[s].v, n)), FALSE))
    /\ UNCHANGED <<tok, ident, collected>>

TyProjectionNew(s) ==
    /\ \/ val[s].sort = "ProjectionTy"
          /\ Put(s, Slot("Ty", Ty_Projection(val[s].v), TRUE))
       \/ val[s].sort = "UnselectedProjectionTy"
          /\ Put(s, Slot("Ty", Ty_UnselectedProjection(val[s].v), TRUE))
    /\ UNCHANGED <<tok, ident, collected>>

\* the names a binder list on side s is drawn from: the side's own name and
\* the name built on the other side (once it is built)
BinderNames(s) ==
    {ident[s]} \cup (IF ident[Other(s)] = NoIdent THEN {} ELSE {ident[Other(s)]})

\* binder lists: the first bound name is the side's own
BinderLists(S, first) ==
    {<<>>} \cup {<<first>> \o l : l \in SeqsUpTo(S, MaxLen - 1)}

\* the parameter kinds a binder list on side s is drawn from
BinderKinds(s) ==
    {ParameterKind_Ty(ident[s])} \cup
    (IF ident[Other(s)] = NoIdent THEN {}
     ELSE {ParameterKind_Lifetime(ident[Other(s)])})

ParameterKindLists(s) == BinderLists(BinderKinds(s), ParameterKind_Ty(ident[s]))

TyForAllNew(s, lifetime_names) ==
    /\ val[s].sort = "Ty" /\ ~val[s].nested
    /\ val' = [val EXCEPT ![s] = Slot("Ty", Ty_ForAll(lifetime_names, val[s].v), TRUE)]
    /\ res' = [NoRes EXCEPT !.op = "ty_forall", !.side = s,
                            !.arg = <<lifetime_names, val[s].v>>]
    /\ UNCHANGED <<tok, ident, collected>>

\* ------------------------------------------------------------------ polarity, impls

\* PolarizedTraitRef::from_bool(polarity, trait_ref)
FromBool(s, polarity) ==
    /\ val[s].sort = "TraitRef"
    /\ val' = [val EXCEPT ![s] =
                 [sort |-> "PolarizedTraitRef", v |-> from_bool(polarity, val[s].v),
                  nested |-> FALSE, via |-> "from_bool"]]
    /\ res' = [NoRes EXCEPT !.op = "from_bool", !.side = s,
                            !.arg = <<polarity, val[s].v>>]
    /\ UNCHANGED <<tok, ident, collected>>

\* the variants of the pub enum are public constructors of their own
PolarizedVariantNew(s, tag) ==
    /\ val[s].sort = "TraitRef"
    /\ Put(s, [sort |-> "PolarizedTraitRef",
               v |-> IF tag = "Positive" THEN PolarizedTraitRef_Positive(val[s].v)
                                         ELSE PolarizedTraitRef_Negative(val[s].v),
               nested |-> FALSE, via |-> "variant"])
    /\ UNCHANGED <<tok, ident, collected>>

ImplNew(s) ==
    /\ val[s].sort = "PolarizedTraitRef"
    /\ Put(s, [sort |-> "Impl", v |-> Impl(<<>>, val[s].v, <<>>, <<>>),
               nested |-> FALSE, via |-> val[s].via])
    /\ UNCHANGED <<tok, ident, collected>>

\* ------------------------------------------------------------------ where clauses, bounds, declarations

WhereClause_Implemented(trait_ref) == [tag |-> "Implemented", trait_ref |-> trait_ref]
WhereClause_ProjectionEq(projection, ty) ==
    [tag |-> "ProjectionEq", projection |-> projection, ty |-> ty]

\* derived PartialEq for WhereClause
WhereClause_eq(a, b) ==
    /\ a.tag = b.tag
    /\ CASE a.tag = "Implemented" -> TraitRef_eq(a.trait_ref, b.trait_ref)
         [] a.tag = "ProjectionEq" ->
              ProjectionTy_eq(a.projection, b.projection) /\ Ty_eq(a.ty, b.ty)

\* derived PartialEq for QuantifiedWhereClause
QuantifiedWhereClause_eq(a, b) ==
    /\ VecParameterKind_eq(a.parameter_kinds, b.parameter_kinds)
    /\ WhereClause_eq(a.where_clause, b.where_clause)

VecQuantifiedWhereClause_eq(a, b) ==
    /\ Len(a) = Len(b)
    /\ \A i \in 1..Len(a) : QuantifiedWhereClause_eq(a[i], b[i])

\* derived PartialEq for Field
Field_eq(a, b) == Identifier_eq(a.name, b.name) /\ Ty_eq(a.ty, b.ty)

VecField_eq(a, b) ==
    /\ Len(a) = Len(b)
    /\ \A i \in 1..Len(a) : Field_eq(a[i], b[i])

\* derived PartialEq for TraitBound
TraitBound_eq(a, b) ==
    /\ Identifier_eq(a.trait_name, b.trait_name)
    /\ VecParameter_eq(a.args_no_self, b.args_no_self)

\* derived PartialEq for ProjectionEqBound
ProjectionEqBound_eq(a, b) ==
    /\ TraitBound_eq(a.trait_bound, b.trait_bound)
    /\ Identifier_eq(a.name, b.name)
    /\ VecParameter_eq(a.args, b.args)
    /\ Ty_eq(a.value, b.value)

\* derived PartialEq for InlineBound
InlineBound_eq(a, b) ==
    /\ a.tag = b.tag
    /\ CASE a.tag = "TraitBound" -> TraitBound_eq(a.f0, b.f0)
         [] a.tag = "ProjectionEqBound" -> ProjectionEqBound_eq(a.f0, b.f0)

VecInlineBound_eq(a, b) ==
    /\ Len(a) = Len(b)
    /\ \A i \in 1..Len(a) : InlineBound_eq(a[i], b[i])

\* derived PartialEq for AssocTyDefn
AssocTyDefn_eq(a, b) ==
    /\ Identifier_eq(a.name, b.name)
    /\ VecParameterKind_eq(a.parameter_kinds, b.parameter_kinds)
    /\ VecInlineBound_eq(a.bounds, b.bounds)
    /\ VecQuantifiedWhereClause_eq(a.where_clauses, b.where_clauses)

VecAssocTyDefn_eq(a, b) ==
    /\ Len(a) = Len(b)
    /\ \A i \in 1..Len(a) : AssocTyDefn_eq(a[i], b[i])

\* derived PartialEq for AssocTyValue
AssocTyValue_eq(a, b) ==
    /\ Identifier_eq(a.name, b.name)
    /\ VecParameterKind_eq(a.parameter_kinds, b.parameter_kinds)
    /\ Ty_eq(a.value, b.value)

VecAssocTyValue_eq(a, b) ==
    /\ Len(a) = Len(b)
    /\ \A i \in 1..Len(a) : AssocTyValue_eq(a[i], b[i])

StructFlags(external, fundamental) ==
    [external |-> external, fundamental |-> fundamental]

\* derived PartialEq for StructFlags
StructFlags_eq(a, b) == a.external = b.external /\ a.fundamental = b.fundamental

StructDefn(name, parameter_kinds, where_clauses, fields, flags) ==
    [name |-> name, parameter_kinds |-> parameter_kinds,
     where_clauses |-> where_clauses, fields |-> fields, flags |-> flags]

\* derived PartialEq for StructDefn
StructDefn_eq(a, b) ==
    /\ Identifier_eq(a.name, b.name)
    /\ VecParameterKind_eq(a.parameter_kinds, b.parameter_kinds)
    /\ VecQuantifiedWhereClause_eq(a.where_clauses, b.where_clauses)
    /\ VecField_eq(a.fields, b.fields)
    /\ StructFlags_eq(a.flags, b.flags)

TraitFlags(auto, marker, external, deref) ==
    [auto |-> auto, marker |-> marker, external |-> external, deref |-> deref]

\* derived PartialEq for TraitFlags
TraitFlags_eq(a, b) ==
    /\ a.auto = b.auto
    /\ a.marker = b.marker
    /\ a.external = b.external
    /\ a.deref = b.deref

TraitDefn(name, parameter_kinds, where_clauses, assoc_ty_defns, flags) ==
    [name |-> name, parameter_kinds |-> parameter_kinds,
     where_clauses |-> where_clauses, assoc_ty_defns |-> assoc_ty_defns,
     flags |-> flags]

\* derived PartialEq for TraitDefn
TraitDefn_eq(a, b) ==
    /\ Identifier_eq(a.name, b.name)
    /\ VecParameterKind_eq(a.parameter_kinds, b.parameter_kinds)
    /\ VecQuantifiedWhereClause_eq(a.where_clauses, b.where_clauses)
    /\ VecAssocTyDefn_eq(a.assoc_ty_defns, b.assoc_ty_defns)
    /\ TraitFlags_eq(a.flags, b.flags)

\* derived PartialEq for Impl
Impl_eq(a, b) ==
    /\ VecParameterKind_eq(a.parameter_kinds, b.parameter_kinds)
    /\ PolarizedTraitRef_eq(a.trait_ref, b.trait_ref)
    /\ VecQuantifiedWhereClause_eq(a.where_clauses, b.where_clauses)
    /\ VecAssocTyValue_eq(a.assoc_ty_values, b.assoc_ty_values)

\* ------------------------------------------------------------------ goals and clauses

DomainGoal_Holds(where_clause) == [tag |-> "Holds", where_clause |-> where_clause]
DomainGoal_TraitRefWellFormed(trait_ref) ==
    [tag |-> "TraitRefWellFormed", trait_ref |-> trait_ref]
DomainGoal_TraitInScope(trait_name) ==
    [tag |-> "TraitInScope", trait_name |-> trait_name]

\* derived PartialEq for DomainGoal
DomainGoal_eq(a, b) ==
    /\ a.tag = b.tag
    /\ CASE a.tag = "Holds" -> WhereClause_eq(a.where_clause, b.where_clause)
         [] a.tag = "Normalize" ->
              ProjectionTy_eq(a.projection, b.projection) /\ Ty_eq(a.ty, b.ty)
         [] a.tag \in {"TraitRefWellFormed", "TraitRefFromEnv", "LocalImplAllowed"} ->
              TraitRef_eq(a.trait_ref, b.trait_ref)
         [] a.tag \in {"TyWellFormed", "TyFromEnv", "IsLocal", "IsExternal",
                       "IsDeeplyExternal"} ->
              Ty_eq(a.ty, b.ty)
         [] a.tag = "TraitInScope" -> Identifier_eq(a.trait_name, b.trait_name)
         [] a.tag = "Derefs" ->
              Ty_eq(a.source, b.source) /\ Ty_eq(a.target, b.target)

LeafGoal_DomainGoal(goal) == [tag |-> "DomainGoal", goal |-> goal]

\* derived PartialEq for LeafGoal
LeafGoal_eq(a, b) ==
    /\ a.tag = b.tag
    /\ CASE a.tag = "DomainGoal" -> DomainGoal_eq(a.goal, b.goal)
         [] a.tag = "UnifyTys" -> Ty_eq(a.a, b.a) /\ Ty_eq(a.b, b.b)
         [] a.tag = "UnifyLifetimes" ->
              Lifetime_eq(a.a, b.a) /\ Lifetime_eq(a.b, b.b)

\* struct literal Clause { parameter_kinds, consequence, conditions }
Clause(parameter_kinds, consequence, conditions) ==
    [parameter_kinds |-> parameter_kinds, consequence |-> consequence,
     conditions |-> conditions]

\* a binder constructor that rejects a list holding one interned name twice
HasDuplicateName(l) ==
    \E i, j \in 1..Len(l) : i # j /\ l[i].f0.str = l[j].f0.str
Goal_ForAll_rejecting(parameter_kinds, goal) ==
    IF HasDuplicateName(parameter_kinds)
    THEN [tag |-> "Error"]
    ELSE [tag |-> "ForAll", f0 |-> parameter_kinds, f1 |-> goal]

Goal_ForAll(parameter_kinds, goal) ==
    [tag |-> "ForAll", f0 |-> parameter_kinds, f1 |-> goal]
Goal_Exists(parameter_kinds, goal) ==
    [tag |-> "Exists", f0 |-> parameter_kinds, f1 |-> goal]
Goal_Implies(clauses, goal) == [tag |-> "Implies", f0 |-> clauses, f1 |-> goal]
Goal_And(g1, g2) == [tag |-> "And", f0 |-> g1, f1 |-> g2]
Goal_Not(goal) == [tag |-> "Not", f0 |-> goal]
Goal_Leaf(leaf) == [tag |-> "Leaf", f0 |-> leaf]

RECURSIVE Goal_eq(_, _)
RECURSIVE VecGoal_eq(_, _)
RECURSIVE Clause_eq(_, _)
RECURSIVE VecClause_eq(_, _)

\* an equality that takes the two quantifiers for one another
Goal_eq_quantifiers_alike(a, b) ==
    IF a.tag \in {"ForAll", "Exists"} /\ b.tag \in {"ForAll", "Exists"}
    THEN VecParameterKind_eq(a.f0, b.f0) /\ Goal_eq(a.f1, b.f1)
    ELSE a = b

\* derived PartialEq for Goal
Goal_eq(a, b) ==
    /\ a.tag = b.tag
    /\ CASE a.tag \in {"ForAll", "Exists"} ->
              VecParameterKind_eq(a.f0, b.f0) /\ Goal_eq(a.f1, b.f1)
         [] a.tag = "Implies" -> VecClause_eq(a.f0, b.f0) /\ Goal_eq(a.f1, b.f1)
         [] a.tag = "And" -> Goal_eq(a.f0, b.f0) /\ Goal_eq(a.f1, b.f1)
         [] a.tag = "Not" -> Goal_eq(a.f0, b.f0)
         [] a.tag = "Leaf" -> LeafGoal_eq(a.f0, b.f0)

\* an equality of goal lists that wants something to compare
VecGoal_eq_nonempty(a, b) ==
    /\ Len(a) = Len(b)
    /\ Len(a) > 0
    /\ \A i \in 1..Len(a) : Goal_eq(a[i], b[i])

\* PartialEq for Vec<Box<Goal>>: same length, equal element by element
VecGoal_eq(a, b) ==
    /\ Len(a) = Len(b)
    /\ \A i \in 1..Len(a) : Goal_eq(a[i], b[i])

\* derived PartialEq for Clause
Clause_eq(a, b) ==
    /\ VecParameterKind_eq(a.parameter_kinds, b.parameter_kinds)
    /\ DomainGoal_eq(a.consequence, b.consequence)
    /\ VecGoal_eq(a.conditions, b.conditions)

VecClause_eq(a, b) ==
    /\ Len(a) = Len(b)
    /\ \A i \in 1..Len(a) : Clause_eq(a[i], b[i])

\* ------------------------------------------------------------------ items, programs

Item_StructDefn(d) == [tag |-> "StructDefn", f0 |-> d]
Item_TraitDefn(d) == [tag |-> "TraitDefn", f0 |-> d]
Item_Impl(d) == [tag |-> "Impl", f0 |-> d]
Item_Clause(d) == [tag |-> "Clause", f0 |-> d]

\* derived PartialEq for Item
Item_eq(a, b) ==
    /\ a.tag = b.tag
    /\ CASE a.tag = "StructDefn" -> StructDefn_eq(a.f0, b.f0)
         [] a.tag = "TraitDefn" -> TraitDefn_eq(a.f0, b.f0)
         [] a.tag = "Impl" -> Impl_eq(a.f0, b.f0)
         [] a.tag = "Clause" -> Clause_eq(a.f0, b.f0)

\* an equality of item lists that forgets the positions
VecItem_eq_unordered(a, b) ==
    /\ Len(a) = Len(b)
    /\ \A i \in 1..Len(a) : \E j \in 1..Len(b) : Item_eq(a[i], b[j])
    /\ \A j \in 1..Len(b) : \E i \in 1..Len(a) : Item_eq(a[i], b[j])

\* PartialEq for Vec<Item>: same length, equal element by element
VecItem_eq(a, b) ==
    /\ Len(a) = Len(b)
    /\ \A i \in 1..Len(a) : Item_eq(a[i], b[i])

\* struct literal Program { items }
Program(its) == [items |-> its]

\* derived PartialEq for Program
Program_eq(a, b) == VecItem_eq(a.items, b.items)

\* ------------------------------------------------------------------ queries

\* a == b at the Rust type both sides have
SortEq(sort, a, b) ==
    CASE sort = "Span" -> Span_eq(a, b)
      [] sort = "Identifier" -> Identifier_eq(a, b)
      [] sort = "ParameterKind" -> ParameterKind_eq(a, b)
      [] sort = "Lifetime" -> Lifetime_eq(a, b)
      [] sort = "Ty" -> Ty_eq(a, b)
      [] sort = "Parameter" -> Parameter_eq(a, b)
      [] sort = "TraitRef" -> TraitRef_eq(a, b)
      [] sort = "ProjectionTy" -> ProjectionTy_eq(a, b)
      [] sort = "UnselectedProjectionTy" -> UnselectedProjectionTy_eq(a, b)
      [] sort = "PolarizedTraitRef" -> PolarizedTraitRef_eq(a, b)
      [] sort = "Impl" -> Impl_eq(a, b)
      [] sort = "WhereClause" -> WhereClause_eq(a, b)
      [] sort = "DomainGoal" -> DomainGoal_eq(a, b)
      [] sort = "LeafGoal" -> LeafGoal_eq(a, b)
      [] sort = "Clause" -> Clause_eq(a, b)
      [] sort = "Goal" -> Goal_eq(a, b)
      [] sort = "Program" -> Program_eq(a, b)

\* the term on side L is compared with the term on side R
EqQuery ==
    /\ val["L"].sort # "None"
    /\ val["L"].sort = val["R"].sort
    /\ res' = [NoRes EXCEPT !.op = "eq",
                            !.eq = SortEq(val["L"].sort, val["L"].v, val["R"].v)]
    /\ UNCHANGED <<tok, ident, val, collected>>

\* kind() is called on the term of side s
KindQuery(s) ==
    /\ \/ val[s].sort = "ParameterKind"
          /\ res' = [NoRes EXCEPT !.op = "kind", !.side = s,
                                  !.kind = ParameterKind_kind(val[s].v)]
       \/ val[s].sort = "Parameter"
          /\ res' = [NoRes EXCEPT !.op = "kind", !.side = s,
                                  !.kind = Parameter_kind(val[s].v)]
    /\ UNCHANGED <<tok, ident, val, collected>>

\* ------------------------------------------------------------------ SpecTerm: symbols, types, trait references, impls

NextTerm ==
    \/ \E s \in Sides, lo \in 0..MaxOffset : SpanOfToken(s, lo)
    \/ \E s \in Sides : IdentifierNew(s)
    \/ \E s \in Sides, k \in Kind : ParameterKindNew(s, k)
    \/ \E s \in Sides : LifetimeNew(s)
    \/ \E s \in Sides : TyIdNew(s)
    \/ \E s \in Sides : ParameterTyNew(s)
    \/ \E s \in Sides : ParameterLifetimeNew(s)
    \/ \E s \in Sides, n \in 0..MaxArgs : TyApplyNew(s, n)
    \/ \E s \in Sides, n \in 0..MaxArgs : TraitRefNew(s, n)
    \/ \E s \in Sides : ProjectionTyNew(s)
    \/ \E s \in Sides, n \in 0..MaxArgs : UnselectedProjectionTyNew(s, n)
    \/ \E s \in Sides : TyProjectionNew(s)
    \/ \E s \in Sides : \E l \in BinderLists(BinderNames(s), ident[s]) :
          TyForAllNew(s, l)
    \/ \E s \in Sides, b \in BOOLEAN : FromBool(s, b)
    \/ \E s \in Sides, t \in {"Positive", "Negative"} : PolarizedVariantNew(s, t)
    \/ \E s \in Sides : ImplNew(s)
    \/ EqQuery
    \/ \E s \in Sides : KindQuery(s)

SpecTerm == InitTokens /\ [][NextTerm]_vars

\* ------------------------------------------------------------------ SpecGoal: where clauses, clauses, goals

WhereClauseNew(s) ==
    /\ val[s].sort = "TraitRef"
    /\ Put(s, Slot("WhereClause", WhereClause_Implemented(val[s].v), FALSE))
    /\ UNCHANGED <<tok, ident, collected>>

DomainGoalNew(s) ==
    /\ val[s].sort = "WhereClause"
    /\ Put(s, Slot("DomainGoal", DomainGoal_Holds(val[s].v), FALSE))
    /\ UNCHANGED <<tok, ident, collected>>

\* Clause { parameter_kinds, consequence, conditions }: the conditions are n
\* copies of the consequence as a leaf goal
ClauseNew(s, parameter_kinds, n) ==
    /\ val[s].sort = "DomainGoal"
    /\ LET conditions == Repeat(Goal_Leaf(LeafGoal_DomainGoal(val[s].v)), n)
       IN  /\ val' = [val EXCEPT ![s] =
                        Slot("Clause",
                             Clause(parameter_kinds, val[s].v, conditions), FALSE)]
           /\ res' = [NoRes EXCEPT !.op = "clause", !.side = s,
                                   !.arg = <<parameter_kinds, val[s].v, conditions>>]
    /\ UNCHANGED <<tok, ident, collected>>

LeafGoalNew(s) ==
    /\ val[s].sort = "DomainGoal"
    /\ Put(s, Slot("LeafGoal", LeafGoal_DomainGoal(val[s].v), FALSE))
    /\ UNCHANGED <<tok, ident, collected>>

GoalLeafNew(s) ==
    /\ val[s].sort = "LeafGoal"
    /\ Put(s, Slot("Goal", Goal_Leaf(val[s].v), FALSE))
    /\ UNCHANGED <<tok, ident, collected>>

\* Goal::ForAll(parameter_kinds, goal) or Goal::Exists(parameter_kinds, goal)
\* over a leaf goal, or with an empty list over an empty quantifier of a leaf
GoalBinderNew(s, kind, parameter_kinds) ==
    /\ val[s].sort = "Goal"
    /\ \/ val[s].v.tag = "Leaf"
       \/ /\ val[s].v.tag \in {"ForAll", "Exists"}
          /\ val[s].v.f0 = <<>>
          /\ val[s].v.f1.tag = "Leaf"
          /\ parameter_kinds = <<>>
    /\ val' = [val EXCEPT ![s] =
                 Slot("Goal",
                      IF kind = "ForAll" THEN Goal_ForAll(parameter_kinds, val[s].v)
                                         ELSE Goal_Exists(parameter_kinds, val[s].v),
                      TRUE)]
    /\ res' = [NoRes EXCEPT !.op = "binder", !.side = s,
                            !.arg = <<kind, parameter_kinds, val[s].v>>]
    /\ UNCHANGED <<tok, ident, collected>>

GoalNotNew(s) ==
    /\ val[s].sort = "Goal" /\ val[s].v.tag = "Leaf"
    /\ Put(s, Slot("Goal", Goal_Not(val[s].v), TRUE))
    /\ UNCHANGED <<tok, ident, collected>>

GoalAndNew(s) ==
    /\ val[s].sort = "Goal" /\ val[s].v.tag = "Leaf"
    /\ Put(s, Slot("Goal", Goal_And(val[s].v, val[s].v), TRUE))
    /\ UNCHANGED <<tok, ident, collected>>

\* Goal::Implies(clauses, goal) with the one hypothesis "the side's trait is in scope"
GoalImpliesNew(s) ==
    /\ val[s].sort = "Goal" /\ val[s].v.tag = "Leaf"
    /\ Put(s, Slot("Goal",
                   Goal_Implies(<<Clause(<<>>, DomainGoal_TraitInScope(ident[s]), <<>>)>>,
                                val[s].v), TRUE))
    /\ UNCHANGED <<tok, ident, collected>>

NextGoal ==
    \/ \E s \in Sides, lo \in 0..MaxOffset : SpanOfToken(s, lo)
    \/ \E s \in Sides : IdentifierNew(s)
    \/ \E s \in Sides : TyIdNew(s)
    \/ \E s \in Sides : \E l \in BinderLists(BinderNames(s), ident[s]) :
          TyForAllNew(s, l)
    \/ \E s \in Sides : ParameterTyNew(s)
    \/ \E s \in Sides : TraitRefNew(s, MaxArgs)
    \/ \E s \in Sides : WhereClauseNew(s)
    \/ \E s \in Sides : DomainGoalNew(s)
    \/ \E s \in Sides, n \in {0, MaxArgs} : \E l \in ParameterKindLists(s) :
          ClauseNew(s, l, n)
    \/ \E s \in Sides : LeafGoalNew(s)
    \/ \E s \in Sides : GoalLeafNew(s)
    \/ \E s \in Sides, k \in {"ForAll", "Exists"} : \E l \in ParameterKindLists(s) :
          GoalBinderNew(s, k, l)
    \/ \E s \in Sides : GoalNotNew(s)
    \/ \E s \in Sides : GoalAndNew(s)
    \/ \E s \in Sides : GoalImpliesNew(s)
    \/ EqQuery

SpecGoal == InitTokens /\ [][NextGoal]_vars

\* ------------------------------------------------------------------ SpecSpan: spans from arbitrary offsets

NextSpan ==
    \/ \E s \in Sides, lo \in 0..MaxOffset, hi \in 0..MaxOffset : SpanNew(s, lo, hi)
    \/ \E s \in Sides : IdentifierNew(s)
    \/ \E s \in Sides, k \in Kind : ParameterKindNew(s, k)
    \/ EqQuery
    \/ \E s \in Sides : KindQuery(s)

SpecSpan == InitTokens /\ [][NextSpan]_vars

\* ------------------------------------------------------------------ claims on symbols, types and impls

L == val["L"]
R == val["R"]

C3_FromBoolPolarity ==
    res.op = "from_bool" =>
        /\ val[res.side].v.tag = (IF res.arg[1] THEN "Positive" ELSE "Negative")
        /\ val[res.side].v.f0 = res.arg[2]
        /\ DOMAIN val[res.side].v = {"tag", "f0"}

\* from_bool(false, tr) ran on a trait reference with arguments
C3_Witness ==
    /\ res.op = "from_bool"
    /\ res.arg[1] = FALSE
    /\ Len(res.arg[2].args) > 0
    /\ val[res.side].v.tag = "Negative"

\* C4: kind() returns Kind::Ty for every ParameterKind::Ty and Parameter::Ty
\* and Kind::Lifetime for every ParameterKind::Lifetime and
\* Parameter::Lifetime, whatever the payload; it always returns a Kind.
C4_KindByVariant ==
    res.op = "kind" =>
        /\ res.kind \in Kind
        /\ val[res.side].sort \in {"ParameterKind", "Parameter"}
        /\ val[res.side].v.tag = "Ty" => res.kind = "Ty"
        /\ val[res.side].v.tag = "Lifetime" => res.kind = "Lifetime"

\* kind() ran on a Parameter::Lifetime
C4_Witness ==
    /\ res.op = "kind"
    /\ val[res.side].sort = "Parameter"
    /\ val[res.side].v.tag = "Lifetime"
    /\ res.kind = "Lifetime"

C6_SpanOrdered ==
    \A s \in Sides : val[s].sort = "Span" => val[s].v.lo <= val[s].v.hi

\* C6 amended: Span::new(lo, hi) stores the two offsets as they are given and
\* checks no order between them.
C6_SpanAsGiven ==
    res.op = "span_new" =>
        /\ val[res.side].v.lo = res.arg[1]
        /\ val[res.side].v.hi = res.arg[2]

\* Span::new ran with lo above hi
C6_Witness ==
    /\ res.op = "span_new"
    /\ res.arg[1] > res.arg[2]
    /\ val[res.side].v.lo > val[res.side].v.hi

\* C8: a Ty::Projection never compares equal to a Ty::UnselectedProjection.
C8_ProjectionFormsDistinct ==
    (/\ res.op = "eq"
     /\ L.sort = "Ty"
     /\ {L.v.tag, R.v.tag} = {"Projection", "UnselectedProjection"}) => ~res.eq

\* the two forms were compared with the same name and the same args
C8_Witness ==
    /\ res.op = "eq"
    /\ L.sort = "Ty"
    /\ L.v.tag = "Projection" /\ R.v.tag = "UnselectedProjection"
    /\ L.v.proj.name = R.v.proj.name
    /\ L.v.proj.args = R.v.proj.args
    /\ Len(L.v.proj.args) > 0
    /\ ~res.eq

\* ------------------------------------------------------------------ SpecProgram: items gathered into a Program

\* the name every declaration on side s carries
ItemName(s) == Identifier(tok[s], Span_new(0, TokenLen))

\* `struct N {}`, `trait N {}` or `impl N for N {}`
ItemOf(s, kind) ==
    CASE kind = "StructDefn" ->
           Item_StructDefn(StructDefn(ItemName(s), <<>>, <<>>, <<>>,
                                      StructFlags(FALSE, FALSE)))
      [] kind = "TraitDefn" ->
           Item_TraitDefn(TraitDefn(ItemName(s), <<>>, <<>>, <<>>,
                                    TraitFlags(FALSE, FALSE, FALSE, FALSE)))
      [] kind = "Impl" ->
           Item_Impl(Impl(<<>>,
                          from_bool(TRUE, TraitRef(ItemName(s),
                                                   <<Parameter_Ty(Ty_Id(ItemName(s)))>>)),
                          <<>>, <<>>))

\* the next declaration of the source is appended to the item list
PushItem(s, kind) ==
    /\ val[s].sort = "None"
    /\ Len(collected[s]) < MaxItems
    /\ collected' = [collected EXCEPT ![s] = Append(collected[s], ItemOf(s, kind))]
    /\ res' = NoRes
    /\ UNCHANGED <<tok, ident, val>>

\* Program { items }
ProgramNew(s) ==
    /\ val[s].sort = "None"
    /\ val' = [val EXCEPT ![s] = Slot("Program", Program(collected[s]), FALSE)]
    /\ res' = [NoRes EXCEPT !.op = "program", !.side = s, !.arg = collected[s]]
    /\ UNCHANGED <<tok, ident, collected>>

NextProgram ==
    \/ \E s \in Sides, k \in {"StructDefn", "TraitDefn", "Impl"} : PushItem(s, k)
    \/ \E s \in Sides : ProgramNew(s)
    \/ EqQuery

SpecProgram == InitTokens /\ [][NextProgram]_vars

\* ------------------------------------------------------------------ claims on goals, clauses and programs

HasDuplicateIdentifier(l) ==
    \E i, j \in 1..Len(l) : i # j /\ l[i].str = l[j].str

C7_ProgramOrder ==
    /\ res.op = "program" =>
         /\ Len(val[res.side].v.items) = Len(res.arg)
         /\ \A i \in 1..Len(res.arg) : val[res.side].v.items[i] = res.arg[i]
    /\ (res.op = "eq" /\ L.sort = "Program") =>
         (res.eq <=> L.v.items = R.v.items)

\* [StructDefn, TraitDefn, Impl] was compared with [TraitDefn, StructDefn,
\* Impl] over the same three items, unequal
C7_Witness ==
    /\ res.op = "eq"
    /\ L.sort = "Program"
    /\ Len(L.v.items) = 3 /\ Len(R.v.items) = 3
    /\ L.v.items[1].tag = "StructDefn"
    /\ L.v.items[2].tag = "TraitDefn"
    /\ L.v.items[3].tag = "Impl"
    /\ R.v.items[1] = L.v.items[2]
    /\ R.v.items[2] = L.v.items[1]
    /\ R.v.items[3] = L.v.items[3]
    /\ ~res.eq

\* C9: a Clause with empty conditions is constructible for any
\* parameter_kinds and consequence, and compares equal to a second Clause
\* built independently from the same parameter_kinds and consequence.
C9_AxiomClauseRoundTrip ==
    /\ (res.op = "clause" /\ res.arg[3] = <<>>) =>
         val[res.side].v = [parameter_kinds |-> res.arg[1],
                            consequence |-> res.arg[2],
                            conditions |-> <<>>]
    /\ (/\ res.op = "eq"
        /\ L.sort = "Clause"
        /\ L.v.conditions = <<>> /\ R.v.conditions = <<>>
        /\ L.v.parameter_kinds = R.v.parameter_kinds
        /\ L.v.consequence = R.v.consequence) => res.eq

\* two Clauses with parameter_kinds [Ty(n)], a Holds(Implemented(..))
\* consequence and no conditions were built on the two sides and compared equal
C9_Witness ==
    /\ res.op = "eq"
    /\ L.sort = "Clause"
    /\ L.v.conditions = <<>> /\ R.v.conditions = <<>>
    /\ Len(L.v.parameter_kinds) = 1 /\ L.v.parameter_kinds[1].tag = "Ty"
    /\ L.v.parameter_kinds = R.v.parameter_kinds
    /\ L.v.consequence.tag = "Holds"
    /\ L.v.consequence.where_clause.tag = "Implemented"
    /\ L.v.consequence = R.v.consequence
    /\ res.eq

EmptyBinder(g) == g.tag \in {"ForAll", "Exists"} /\ g.f0 = <<>>

\* C10: Exists([], g) and ForAll([], g) are constructed like any other
\* binder, they are not equal to one another, and neither is equal to g.
C10_EmptyBindersDistinct ==
    /\ (res.op = "binder" /\ res.arg[2] = <<>>) =>
         val[res.side].v = [tag |-> res.arg[1], f0 |-> <<>>, f1 |-> res.arg[3]]
    /\ (res.op = "eq" /\ L.sort = "Goal") =>
         /\ (EmptyBinder(L.v) /\ EmptyBinder(R.v) /\ L.v.tag # R.v.tag) => ~res.eq
         /\ (EmptyBinder(L.v) /\ L.v.f1 = R.v) => ~res.eq
         /\ (EmptyBinder(R.v) /\ R.v.f1 = L.v) => ~res.eq

\* Exists([], g) was compared with ForAll([], g) over the same g, unequal
C10_Witness ==
    /\ res.op = "eq"
    /\ L.sort = "Goal"
    /\ L.v.tag = "Exists" /\ R.v.tag = "ForAll"
    /\ L.v.f0 = <<>> /\ R.v.f0 = <<>>
    /\ L.v.f1 = R.v.f1
    /\ ~res.eq

====
